---- MODULE Spec2Model ----
(***************************************************************************)
(* Model of pyftdi/c2.py: the C2Controller of a Silicon Labs C2 master     *)
(* driven through an FTDI MPSSE engine.                                    *)
(*                                                                         *)
(* State: the Ftdi connection flag and the pending output buffer           *)
(* (_write_buff).  Every public method is one action.  The variable `last` *)
(* records the call that has just returned: its name and argument, the     *)
(* state it started from, its outcome, and the ordered trace of what it    *)
(* did to the transport and to the buffer.                                 *)
(***************************************************************************)
EXTENDS Integers, Sequences, FiniteSets, TLC

VARIABLES
    connected,      \* Ftdi.is_connected
    write_buff,     \* C2Controller._write_buff, a sequence of bytes
    last,           \* the call that has just returned
    wire,           \* every buffer the transport has accepted, in order
    enq,            \* every frame appended to the pending buffer, in order
    closed,         \* close() has disconnected the transport at some time
    spent           \* number of calls charged to the exploration budget

vars == <<connected, write_buff, last, wire, enq, closed, spent>>

----------------------------------------------------------------------------
(* Exploration bounds *)

\* A behaviour is a run of write_addr(FillAddr) calls of any length, which
\* fills the pending buffer, followed by at most MaxOther calls of any kind.
MaxOther == 3

\* The number of calls of a behaviour of the life-cycle specification.
MaxLife == 4

\* The address used by the unbounded stream of write_addr calls.
FillAddr == 0

\* Arguments tried for write_addr and write_data_byte.
AddrSet == {FillAddr, 180}
ValSet == {66}

\* Results the transport may give to read_data_bytes(1, 4): one byte, or
\* nothing when the device did not answer within the attempts.
RxSet == {<<165>>, <<>>}

\* Which write_data call of a handler fails (0: none).
FaultSet == 0..3

Byte == 0..255

----------------------------------------------------------------------------
(* Constants of the class and of the MPSSE command set *)

CK_BIT == 1
D_O_BIT == 2
FTDI_PIPE_LEN == 512
INS_READ_DATA == 0
INS_WRITE_DATA == 1
INS_READ_ADDR == 2
INS_WRITE_ADDR == 3

SET_BITS_LOW == 128
CLK_BITS_NO_DATA == 142
CLK_WAIT_ON_HIGH == 148
WRITE_BITS_PVE_LSB == 26
WRITE_BYTES_PVE_LSB == 24
READ_BYTES_PVE_LSB == 40

\* Python's a | b on non-negative integers.
RECURSIVE BitOr(_, _)
BitOr(a, b) ==
    IF a = 0 THEN b
    ELSE IF b = 0 THEN a
    ELSE (IF (a % 2 = 1) \/ (b % 2 = 1) THEN 1 ELSE 0)
         + 2 * BitOr(a \div 2, b \div 2)

\* Bit test: a & bit # 0, for bit a power of two.
HasBit(a, bit) == (a \div bit) % 2 = 1

----------------------------------------------------------------------------
(* Command encoder: the bytearray built by each method *)

claim_cmd == <<SET_BITS_LOW, BitOr(CK_BIT, D_O_BIT), CK_BIT>>

\* The release command with the clock line still driven.
release_cmd_clock_driven == <<SET_BITS_LOW, BitOr(CK_BIT, D_O_BIT), CK_BIT>>

release_cmd == <<SET_BITS_LOW, BitOr(CK_BIT, D_O_BIT), 0>>

\* The first reset command with the clock left high.
reset_cmd_low_clock_high == <<SET_BITS_LOW, BitOr(CK_BIT, D_O_BIT), CK_BIT>>

reset_cmd_low == <<SET_BITS_LOW, BitOr(0, D_O_BIT), CK_BIT>>

reset_cmd_high == <<SET_BITS_LOW, BitOr(CK_BIT, D_O_BIT), CK_BIT>>

configure_cmd == <<SET_BITS_LOW, BitOr(CK_BIT, D_O_BIT), 0>>

\* write_addr with the instruction bit count of the data-byte frames.
write_addr_cmd_data_bitcount(addr) ==
    <<CLK_BITS_NO_DATA, 0,
      SET_BITS_LOW, BitOr(CK_BIT, D_O_BIT), BitOr(CK_BIT, D_O_BIT),
      WRITE_BITS_PVE_LSB, 3, INS_WRITE_ADDR,
      WRITE_BYTES_PVE_LSB, 0, 0, addr,
      SET_BITS_LOW, BitOr(CK_BIT, D_O_BIT), CK_BIT,
      CLK_BITS_NO_DATA, 0>>

write_addr_cmd(addr) ==
    <<CLK_BITS_NO_DATA, 0,
      SET_BITS_LOW, BitOr(CK_BIT, D_O_BIT), BitOr(CK_BIT, D_O_BIT),
      WRITE_BITS_PVE_LSB, 1, INS_WRITE_ADDR,
      WRITE_BYTES_PVE_LSB, 0, 0, addr,
      SET_BITS_LOW, BitOr(CK_BIT, D_O_BIT), CK_BIT,
      CLK_BITS_NO_DATA, 0>>

\* read_addr with the WAIT of the data-byte frames.
read_addr_cmd_with_wait ==
    <<CLK_BITS_NO_DATA, 0,
      SET_BITS_LOW, BitOr(CK_BIT, D_O_BIT), BitOr(CK_BIT, D_O_BIT),
      WRITE_BITS_PVE_LSB, 1, INS_READ_ADDR,
      SET_BITS_LOW, BitOr(CK_BIT, D_O_BIT), CK_BIT,
      CLK_WAIT_ON_HIGH,
      READ_BYTES_PVE_LSB, 0, 0,
      CLK_BITS_NO_DATA, 0>>

read_addr_cmd ==
    <<CLK_BITS_NO_DATA, 0,
      SET_BITS_LOW, BitOr(CK_BIT, D_O_BIT), BitOr(CK_BIT, D_O_BIT),
      WRITE_BITS_PVE_LSB, 1, INS_READ_ADDR,
      SET_BITS_LOW, BitOr(CK_BIT, D_O_BIT), CK_BIT,
      READ_BYTES_PVE_LSB, 0, 0,
      CLK_BITS_NO_DATA, 0>>

\* write_data_byte with the opcode of write_addr.
write_data_byte_cmd_addr_opcode(val) ==
    <<CLK_BITS_NO_DATA, 0,
      SET_BITS_LOW, BitOr(CK_BIT, D_O_BIT), BitOr(CK_BIT, D_O_BIT),
      WRITE_BITS_PVE_LSB, 3, INS_WRITE_ADDR,
      WRITE_BYTES_PVE_LSB, 0, 0, val,
      SET_BITS_LOW, BitOr(CK_BIT, D_O_BIT), CK_BIT,
      CLK_WAIT_ON_HIGH,
      CLK_BITS_NO_DATA, 0>>

write_data_byte_cmd(val) ==
    <<CLK_BITS_NO_DATA, 0,
      SET_BITS_LOW, BitOr(CK_BIT, D_O_BIT), BitOr(CK_BIT, D_O_BIT),
      WRITE_BITS_PVE_LSB, 3, INS_WRITE_DATA,
      WRITE_BYTES_PVE_LSB, 0, 0, val,
      SET_BITS_LOW, BitOr(CK_BIT, D_O_BIT), CK_BIT,
      CLK_WAIT_ON_HIGH,
      CLK_BITS_NO_DATA, 0>>

\* read_data_byte with the WAIT moved behind the payload read.
read_data_byte_cmd_wait_after_read ==
    <<CLK_BITS_NO_DATA, 0,
      SET_BITS_LOW, BitOr(CK_BIT, D_O_BIT), BitOr(CK_BIT, D_O_BIT),
      WRITE_BITS_PVE_LSB, 3, INS_READ_DATA,
      SET_BITS_LOW, BitOr(CK_BIT, D_O_BIT), CK_BIT,
      READ_BYTES_PVE_LSB, 0, 0,
      CLK_WAIT_ON_HIGH,
      CLK_BITS_NO_DATA, 0>>

read_data_byte_cmd ==
    <<CLK_BITS_NO_DATA, 0,
      SET_BITS_LOW, BitOr(CK_BIT, D_O_BIT), BitOr(CK_BIT, D_O_BIT),
      WRITE_BITS_PVE_LSB, 3, INS_READ_DATA,
      SET_BITS_LOW, BitOr(CK_BIT, D_O_BIT), CK_BIT,
      CLK_WAIT_ON_HIGH,
      READ_BYTES_PVE_LSB, 0, 0,
      CLK_BITS_NO_DATA, 0>>

----------------------------------------------------------------------------
(* The transport (Ftdi), as far as the controller uses it *)

\* One entry of a call's trace.  t: what happened; by: the method that did
\* it; args: the arguments of the transport call; data: the bytes written,
\* appended or read; pend: the length of the pending buffer at that moment.
Ev(t, by, args, data, pend) ==
    [t |-> t, by |-> by, args |-> args, data |-> data, pend |-> pend]

\* bool(self._ftdi): the attribute is bound to the Ftdi instance at
\* construction and never rebound, and an instance is true.
ftdi_is_set == TRUE

\* Ftdi.write_data(data), the n-th write of the running call; it fails when
\* the device is not open or when the transfer fails (n = f).
ftdi_write_data(conn, by, data, pend, n, f) ==
    IF conn /\ n # f
    THEN [ok |-> TRUE, ev |-> <<Ev("write", by, <<>>, data, pend)>>]
    ELSE [ok |-> FALSE, ev |-> <<Ev("write_failed", by, <<>>, data, pend)>>]

----------------------------------------------------------------------------
(* Output batcher *)

\* sync that forgets to start a new buffer after the write.
sync_keep_buffer(conn, s, f) ==
    IF ~conn
    THEN [s EXCEPT !.res = "C2Error"]
    ELSE IF s.buf # <<>>
         THEN LET w == ftdi_write_data(conn, "sync", s.buf, Len(s.buf),
                                       s.n + 1, f)
              IN  IF w.ok
                  THEN [s EXCEPT !.ev = s.ev \o w.ev, !.n = s.n + 1]
                  ELSE [s EXCEPT !.res = "FtdiError", !.ev = s.ev \o w.ev,
                                 !.n = s.n + 1]
         ELSE s

\* sync that writes whatever the buffer holds, even nothing.
sync_write_always(conn, s, f) ==
    IF ~conn
    THEN [s EXCEPT !.res = "C2Error"]
    ELSE LET w == ftdi_write_data(conn, "sync", s.buf, Len(s.buf), s.n + 1, f)
         IN  IF w.ok
             THEN [s EXCEPT !.buf = <<>>, !.ev = s.ev \o w.ev, !.n = s.n + 1]
             ELSE [s EXCEPT !.res = "FtdiError", !.ev = s.ev \o w.ev,
                            !.n = s.n + 1]

\* sync that drops the buffer whether or not the write went through.
sync_clear_on_failure(conn, s, f) ==
    IF ~conn
    THEN [s EXCEPT !.res = "C2Error"]
    ELSE IF s.buf # <<>>
         THEN LET w == ftdi_write_data(conn, "sync", s.buf, Len(s.buf),
                                       s.n + 1, f)
              IN  [s EXCEPT !.res = IF w.ok THEN "ok" ELSE "FtdiError",
                            !.buf = <<>>, !.ev = s.ev \o w.ev, !.n = s.n + 1]
         ELSE s

\* sync without the connection check: the write is attempted regardless.
sync_unchecked(conn, s, f) ==
    IF s.buf # <<>>
    THEN LET w == ftdi_write_data(conn, "sync", s.buf, Len(s.buf), s.n + 1, f)
         IN  IF w.ok
             THEN [s EXCEPT !.buf = <<>>, !.ev = s.ev \o w.ev, !.n = s.n + 1]
             ELSE [s EXCEPT !.res = "FtdiError", !.ev = s.ev \o w.ev,
                            !.n = s.n + 1]
    ELSE s

\* C2Controller.sync.  s is the running call: its result so far, the buffer,
\* the trace and the number of write_data calls made.
sync(conn, s, f) ==
    IF ~conn
    THEN [s EXCEPT !.res = "C2Error"]
    ELSE IF s.buf # <<>>
         THEN LET w == ftdi_write_data(conn, "sync", s.buf, Len(s.buf),
                                       s.n + 1, f)
              IN  IF w.ok
                  THEN [s EXCEPT !.buf = <<>>, !.ev = s.ev \o w.ev,
                                 !.n = s.n + 1]
                  ELSE [s EXCEPT !.res = "FtdiError", !.ev = s.ev \o w.ev,
                                 !.n = s.n + 1]
         ELSE s

\* _stack_cmd that flushes only when the limit would be passed (> for >=).
stack_cmd_strict_limit(conn, s, cmd, f) ==
    LET t == IF Len(s.buf) + Len(cmd) + 1 > FTDI_PIPE_LEN
             THEN sync(conn, s, f)
             ELSE s
    IN  IF t.res # "ok"
        THEN t
        ELSE [t EXCEPT !.buf = t.buf \o cmd,
                       !.ev = t.ev \o <<Ev("append", "_stack_cmd", <<>>,
                                           cmd, Len(t.buf))>>]

\* _stack_cmd that flushes before every append.
stack_cmd_eager_flush(conn, s, cmd, f) ==
    LET t == sync(conn, s, f)
    IN  IF t.res # "ok"
        THEN t
        ELSE [t EXCEPT !.buf = t.buf \o cmd,
                       !.ev = t.ev \o <<Ev("append", "_stack_cmd", <<>>,
                                           cmd, Len(t.buf))>>]

\* _stack_cmd that appends first and flushes afterwards.
stack_cmd_flush_after_append(conn, s, cmd, f) ==
    LET t == [s EXCEPT !.buf = s.buf \o cmd,
                       !.ev = s.ev \o <<Ev("append", "_stack_cmd", <<>>,
                                           cmd, Len(s.buf))>>]
    IN  IF Len(s.buf) + Len(cmd) + 1 >= FTDI_PIPE_LEN
        THEN sync(conn, t, f)
        ELSE t

\* C2Controller._stack_cmd.  cmd is always a bytearray, so the TypeError
\* branch is never taken.
\* _stack_cmd that fills the buffer to the pipe length with the head of the
\* frame before flushing, and keeps the rest of the frame for the next write.
stack_cmd_partial_fill(conn, s, cmd, f) ==
    IF Len(s.buf) + Len(cmd) + 1 >= FTDI_PIPE_LEN
    THEN LET room == FTDI_PIPE_LEN - 1 - Len(s.buf)
             k    == IF room < Len(cmd) THEN room ELSE Len(cmd)
             t    == sync(conn, [s EXCEPT !.buf = s.buf \o SubSeq(cmd, 1, k)],
                          f)
         IN  IF t.res # "ok"
             THEN t
             ELSE [t EXCEPT !.buf = t.buf \o SubSeq(cmd, k + 1, Len(cmd)),
                            !.ev = t.ev \o <<Ev("append", "_stack_cmd", <<>>,
                                                cmd, Len(t.buf))>>]
    ELSE [s EXCEPT !.buf = s.buf \o cmd,
                   !.ev = s.ev \o <<Ev("append", "_stack_cmd", <<>>,
                                       cmd, Len(s.buf))>>]

stack_cmd(conn, s, cmd, f) ==
    IF ~ftdi_is_set
    THEN [s EXCEPT !.res = "C2Error"]
    ELSE LET t == IF Len(s.buf) + Len(cmd) + 1 >= FTDI_PIPE_LEN
                  THEN sync(conn, s, f)
                  ELSE s
         IN  IF t.res # "ok"
             THEN t
             ELSE [t EXCEPT !.buf = t.buf \o cmd,
                            !.ev = t.ev \o <<Ev("append", "_stack_cmd", <<>>,
                                                cmd, Len(t.buf))>>]

\* A call that has just started.
Start(buf) == [res |-> "ok", buf |-> buf, ev |-> <<>>, n |-> 0, ret |-> <<>>]

\* self._ftdi.write_data(cmd) made directly by a method.
direct_write(conn, s, by, cmd, f) ==
    IF s.res # "ok"
    THEN s
    ELSE LET w == ftdi_write_data(conn, by, cmd, Len(s.buf), s.n + 1, f)
         IN  [s EXCEPT !.res = IF w.ok THEN "ok" ELSE "FtdiError",
                       !.ev = s.ev \o w.ev, !.n = s.n + 1]

\* data = self._ftdi.read_data_bytes(1, 4); return data[0]
read_byte(conn, s, by, rx) ==
    IF s.res # "ok"
    THEN s
    ELSE IF ~conn
         THEN [s EXCEPT !.res = "FtdiError"]
         ELSE [s EXCEPT !.res = IF rx = <<>> THEN "IndexError" ELSE "ok",
                        !.ev = s.ev \o <<Ev("read", by, <<1, 4>>, rx,
                                            Len(s.buf))>>,
                        !.ret = IF rx = <<>> THEN <<>> ELSE <<rx[1]>>]

----------------------------------------------------------------------------
(* Bodies of the public methods, from the state (conn, buf) *)

claim(conn, buf, f) == direct_write(conn, Start(buf), "claim", claim_cmd, f)

\* release that writes its command without flushing, as claim does.
release_without_sync(conn, buf, f) ==
    direct_write(conn, Start(buf), "release", release_cmd, f)

release(conn, buf, f) ==
    direct_write(conn, sync(conn, Start(buf), f), "release", release_cmd, f)

reset(conn, buf, f) ==
    IF ~conn
    THEN [Start(buf) EXCEPT !.res = "C2Error"]
    ELSE direct_write(conn,
             direct_write(conn, sync(conn, Start(buf), f), "reset",
                          reset_cmd_low, f),
             "reset", reset_cmd_high, f)

write_addr(conn, buf, addr, f) ==
    stack_cmd(conn, Start(buf), write_addr_cmd(addr), f)

write_data_byte(conn, buf, val, f) ==
    stack_cmd(conn, Start(buf), write_data_byte_cmd(val), f)

\* A read method that does not flush before reading.
sync_after_skipped(conn, s, f) == s

\* sync() is reached only when _stack_cmd returned.
sync_after(conn, s, f) == IF s.res # "ok" THEN s ELSE sync(conn, s, f)

read_addr(conn, buf, rx, f) ==
    read_byte(conn,
        sync_after(conn, stack_cmd(conn, Start(buf), read_addr_cmd, f), f),
        "read_addr", rx)

read_data_byte(conn, buf, rx, f) ==
    read_byte(conn,
        sync_after(conn, stack_cmd(conn, Start(buf), read_data_byte_cmd, f), f),
        "read_data_byte", rx)

----------------------------------------------------------------------------
(* Actions *)

\* The record of a finished call.
Done(op, arg, s) ==
    [op |-> op, arg |-> arg, conn |-> connected, pre |-> write_buff,
     res |-> s.res, ev |-> s.ev, ret |-> s.ret,
     closed |-> closed,
     prevfail |-> \E i \in 1..Len(last.ev) :
                     last.ev[i].t = "write_failed" /\ last.ev[i].by = "sync"]

\* The entries of kind t of a trace, in order.
RECURSIVE Only(_, _)
Only(ev, t) ==
    IF ev = <<>> THEN <<>>
    ELSE (IF Head(ev).t = t THEN <<Head(ev)>> ELSE <<>>) \o Only(Tail(ev), t)

\* The data carried by the entries of a trace.
DataOf(ev) == [i \in 1..Len(ev) |-> ev[i].data]

\* Commit the outcome s of a method, apart from the connection flag.
Commit(op, arg, s) ==
    /\ write_buff' = s.buf
    /\ last' = Done(op, arg, s)
    /\ wire' = wire \o Only(s.ev, "write")
    /\ enq' = enq \o DataOf(Only(s.ev, "append"))

\* Commit the outcome s of a method that does not touch the connection.
Return(op, arg, s) ==
    /\ Commit(op, arg, s)
    /\ UNCHANGED <<connected, closed>>

Charge(c) ==
    /\ spent + c <= MaxOther
    /\ spent' = spent + c

Init ==
    /\ connected = FALSE
    /\ write_buff = <<>>
    /\ last = [op |-> "init", arg |-> <<>>, conn |-> FALSE, pre |-> <<>>,
               res |-> "ok", ev |-> <<>>, ret |-> <<>>,
               closed |-> FALSE, prevfail |-> FALSE]
    /\ wire = <<>>
    /\ enq = <<>>
    /\ closed = FALSE
    /\ spent = 0

\* configure(url): open the MPSSE port (f = 1: the open fails), initialise
\* the GPIOs, enable 3-phase clocking.
Configure(f) ==
    LET s0 == Start(write_buff)
        s1 == IF f = 1
              THEN [s0 EXCEPT !.res = "FtdiError",
                              !.ev = <<Ev("open_failed", "configure", <<0>>,
                                          <<>>, Len(write_buff))>>]
              ELSE [s0 EXCEPT !.ev = <<Ev("open", "configure", <<0>>, <<>>,
                                          Len(write_buff))>>,
                              !.n = 1]
        s2 == direct_write(TRUE, s1, "configure", configure_cmd, f)
        s3 == IF s2.res # "ok" THEN s2
              ELSE [s2 EXCEPT !.ev = s2.ev \o
                       <<Ev("enable_3phase_clock", "configure", <<TRUE>>,
                            <<>>, Len(write_buff))>>]
    IN  /\ connected' = IF f = 1 THEN connected ELSE TRUE
        /\ Commit("configure", <<>>, s3)
        /\ UNCHANGED closed

\* close that leaves the transport open.
Close_keeps_connection(freeze) ==
    /\ UNCHANGED <<connected, closed>>
    /\ Commit("close", <<freeze>>, Start(write_buff))

\* close that throws the pending frames away.
Close_drops_buffer(freeze) ==
    /\ connected' = FALSE
    /\ closed' = (closed \/ connected)
    /\ Commit("close", <<freeze>>,
              [Start(<<>>) EXCEPT !.ev =
                  IF connected
                  THEN <<Ev("close", "close", <<freeze>>, <<>>,
                            Len(write_buff))>>
                  ELSE <<>>])

\* close(freeze)
Close(freeze) ==
    /\ connected' = FALSE
    /\ closed' = (closed \/ connected)
    /\ Commit("close", <<freeze>>,
              [Start(write_buff) EXCEPT !.ev =
                  IF connected
                  THEN <<Ev("close", "close", <<freeze>>, <<>>,
                            Len(write_buff))>>
                  ELSE <<>>])

\* purge()
Purge ==
    Return("purge", <<>>,
           IF connected
           THEN [Start(write_buff) EXCEPT !.ev =
                    <<Ev("purge_buffers", "purge", <<>>, <<>>,
                         Len(write_buff))>>]
           ELSE [Start(write_buff) EXCEPT !.res = "FtdiError"])

Sync(f) == Return("sync", <<>>, sync(connected, Start(write_buff), f))

Claim(f) == Return("claim", <<>>, claim(connected, write_buff, f))

Release(f) == Return("release", <<>>, release(connected, write_buff, f))

Reset(f) == Return("reset", <<>>, reset(connected, write_buff, f))

WriteAddr(addr, f) ==
    Return("write_addr", <<addr>>, write_addr(connected, write_buff, addr, f))

WriteDataByte(val, f) ==
    Return("write_data_byte", <<val>>,
           write_data_byte(connected, write_buff, val, f))

ReadAddr(rx, f) ==
    Return("read_addr", <<>>, read_addr(connected, write_buff, rx, f))

ReadDataByte(rx, f) ==
    Return("read_data_byte", <<>>, read_data_byte(connected, write_buff, rx, f))

Next ==
    \/ \E f \in 0..2 : Charge(1) /\ Configure(f)
    \/ \E fr \in BOOLEAN : Charge(1) /\ Close(fr)
    \/ Charge(1) /\ Purge
    \/ \E f \in 0..1 : Charge(1) /\ Sync(f)
    \/ \E f \in 0..1 : Charge(1) /\ Claim(f)
    \/ \E f \in 0..2 : Charge(1) /\ Release(f)
    \/ \E f \in FaultSet : Charge(1) /\ Reset(f)
    \/ \E a \in AddrSet, f \in 0..1 :
          Charge(IF a = FillAddr /\ f = 0 /\ spent = 0 THEN 0 ELSE 1) /\ WriteAddr(a, f)
    \/ \E v \in ValSet, f \in 0..1 : Charge(1) /\ WriteDataByte(v, f)
    \/ \E rx \in RxSet, f \in 0..2 : Charge(1) /\ ReadAddr(rx, f)
    \/ \E rx \in RxSet, f \in 0..2 : Charge(1) /\ ReadDataByte(rx, f)

Spec == Init /\ [][Next]_vars

\* One call with any byte as argument, before or after configure: the
\* encoder over the whole range of its input.
NextEnc ==
    /\ last.op \in {"init", "configure"}
    /\ Charge(1)
    /\ \/ last.op = "init" /\ Configure(0)
       \/ \E a \in Byte : WriteAddr(a, 0)
       \/ \E v \in Byte : WriteDataByte(v, 0)
       \/ \E rx \in RxSet : ReadAddr(rx, 0)
       \/ \E rx \in RxSet : ReadDataByte(rx, 0)

SpecEnc == Init /\ [][NextEnc]_vars

\* Any MaxLife calls with transfers that succeed, from construction: the
\* life cycle of the connection.
NextLife ==
    /\ spent < MaxLife
    /\ spent' = spent + 1
    /\ \/ Configure(0)
       \/ \E fr \in BOOLEAN : Close(fr)
       \/ Purge
       \/ Sync(0)
       \/ Claim(0)
       \/ Release(0)
       \/ Reset(0)
       \/ WriteAddr(FillAddr, 0)
       \/ \E v \in ValSet : WriteDataByte(v, 0)
       \/ \E rx \in RxSet : ReadAddr(rx, 0)
       \/ \E rx \in RxSet : ReadDataByte(rx, 0)

SpecLife == Init /\ [][NextLife]_vars

TypeOK ==
    /\ connected \in BOOLEAN
    /\ \A i \in 1..Len(write_buff) : write_buff[i] \in Byte
    /\ spent \in 0..(MaxOther + MaxLife)

----------------------------------------------------------------------------
(* Vocabulary of the properties *)

RECURSIVE Flatten(_)
Flatten(ss) == IF ss = <<>> THEN <<>> ELSE Head(ss) \o Flatten(Tail(ss))

WriteOps == {"write_addr", "write_data_byte"}
ReadOps == {"read_addr", "read_data_byte"}
TxnOps == WriteOps \cup ReadOps

\* The frame the last transaction call built.
LastFrame ==
    CASE last.op = "write_addr" -> write_addr_cmd(last.arg[1])
      [] last.op = "write_data_byte" -> write_data_byte_cmd(last.arg[1])
      [] last.op = "read_addr" -> read_addr_cmd
      [] last.op = "read_data_byte" -> read_data_byte_cmd

\* The last call started with a buffer the frame did not fit in.
AtLimit == Len(last.pre) + Len(LastFrame) + 1 >= FTDI_PIPE_LEN

Appends == Only(last.ev, "append")
Writes == Only(last.ev, "write")
FailedWrites == Only(last.ev, "write_failed")
Reads == Only(last.ev, "read")

\* The buffers handed to the transport by flushes, over the whole run.
Flushed == DataOf(SelectSeq(wire, LAMBDA e : e.by = "sync"))

----------------------------------------------------------------------------
(* Properties *)

\* C1: the pending buffer always satisfies len(buffer) + 1 < FTDI_PIPE_LEN;
\* whenever _stack_cmd appends a frame, len(buffer) + len(frame) + 1 <
\* FTDI_PIPE_LEN holds at that moment; and a frame is never turned down for
\* its size: a transaction call leaves its frame out only when the flush it
\* needed failed (transport closed, or the transport write failed).
C1_BufferBelowPipeLen ==
    /\ Len(write_buff) + 1 < FTDI_PIPE_LEN
    /\ \A i \in 1..Len(last.ev) :
          last.ev[i].t = "append" =>
             last.ev[i].pend + Len(last.ev[i].data) + 1 < FTDI_PIPE_LEN
    /\ (last.op \in TxnOps /\ Appends = <<>>) =>
          /\ AtLimit
          /\ last.res \in {"C2Error", "FtdiError"}
          /\ ~last.conn \/ (Len(FailedWrites) = 1 /\ FailedWrites[1].data = last.pre)
    /\ (last.op \in TxnOps /\ last.conn /\ FailedWrites = <<>>) =>
          DataOf(Appends) = <<LastFrame>>

\* The pending buffer was as long as it can get, a flush made room, and the
\* frame was appended.
C1_Witness ==
    /\ last.op \in TxnOps
    /\ Len(last.pre) + 1 = FTDI_PIPE_LEN - 1
    /\ Len(Writes) >= 1
    /\ DataOf(Appends) = <<LastFrame>>

\* C2: the buffers handed to the transport by flushes, concatenated and
\* followed by the pending buffer, are the enqueued frames concatenated in
\* call order.
C2_FramesInOrder == Flatten(Flushed) \o write_buff = Flatten(enq)

\* Two flushes have happened, frames are pending again.
C2_Witness ==
    /\ Len(Flushed) >= 2
    /\ write_buff # <<>>
    /\ Len(enq) >= 3

\* C3: in a read call the transport read comes last, after flushes that
\* carried the whole previous buffer followed by the read's own frame, with
\* nothing pending and every frame enqueued so far delivered; it asks for 1
\* byte with factor 4, and a call that returns a value made exactly one read
\* and returns the first byte of its result.
C3_ReadAfterFlush ==
    last.op \in ReadOps =>
       /\ Len(Reads) <= 1
       /\ \A i \in 1..Len(last.ev) :
             last.ev[i].t = "read" =>
                /\ i = Len(last.ev)
                /\ last.ev[i].pend = 0
                /\ last.ev[i].args = <<1, 4>>
                /\ Flatten(DataOf(Writes)) = last.pre \o LastFrame
                /\ \A j \in 1..Len(Writes) : Writes[j].by = "sync"
                /\ write_buff = <<>>
                /\ Flatten(Flushed) = Flatten(enq)
                /\ enq[Len(enq)] = LastFrame
       /\ last.res = "ok" =>
             /\ Len(Reads) = 1
             /\ Reads[1].data # <<>>
             /\ last.ret = <<Reads[1].data[1]>>

\* A read returned a value after flushing frames that were pending.
C3_Witness ==
    /\ last.op \in ReadOps
    /\ last.res = "ok"
    /\ last.pre # <<>>
    /\ Len(Reads) = 1

\* C4: a write call writes to the transport only when len(buffer) +
\* len(frame) + 1 >= FTDI_PIPE_LEN at the time it enqueues; every other
\* write call does nothing but append its frame to the pending buffer.
C4_Batching ==
    last.op \in WriteOps =>
       /\ (Writes # <<>> \/ FailedWrites # <<>>) => AtLimit
       /\ ~AtLimit =>
             /\ last.res = "ok"
             /\ Len(last.ev) = 1
             /\ last.ev[1].t = "append"
             /\ last.ev[1].data = LastFrame
             /\ write_buff = last.pre \o LastFrame

\* A write call on an open transport joined frames already pending,
\* without a transport write.
C4_Witness ==
    /\ last.op \in WriteOps
    /\ last.conn
    /\ last.pre # <<>>
    /\ ~AtLimit
    /\ write_buff = last.pre \o LastFrame

\* C5: when a frame is enqueued that would make the buffered length reach
\* the limit (open transport, the write succeeds), exactly one transport
\* write carrying the whole previous buffer happens before the append, the
\* buffer is empty right after it, and right after the append the buffer
\* holds the new frame and nothing else.
C5_BoundaryFlush ==
    (/\ last.op \in TxnOps
     /\ last.conn
     /\ AtLimit
     /\ ~(Len(last.ev) >= 1 /\ last.ev[1].t = "write_failed")) =>
       /\ Len(last.ev) >= 2
       /\ last.ev[1].t = "write"
       /\ last.ev[1].data = last.pre
       /\ last.ev[2].t = "append"
       /\ last.ev[2].pend = 0
       /\ last.ev[2].data = LastFrame
       /\ last.op \in WriteOps =>
             /\ Len(last.ev) = 2
             /\ write_buff = LastFrame

\* A write call arrived when len(buffer) + len(frame) + 1 was exactly the
\* limit and went through a flush.
C5_Witness ==
    /\ last.op \in WriteOps
    /\ last.conn
    /\ Len(last.pre) + Len(LastFrame) + 1 = FTDI_PIPE_LEN
    /\ last.res = "ok"
    /\ write_buff = LastFrame

\* C6: without an open transport (before configure, after close) every
\* transaction call fails with C2Error, whatever the length of the pending
\* buffer.
C6_NotConnectedFails ==
    (last.op \in TxnOps /\ ~last.conn) => last.res = "C2Error"

\* C7: sync() on an open transport whose write succeeds: a non-empty buffer
\* goes to the transport whole, as exactly one write, and the buffer is empty
\* afterwards; with an empty buffer nothing is written and nothing changes.
C7_Sync ==
    (last.op = "sync" /\ last.conn /\ FailedWrites = <<>>) =>
       /\ last.res = "ok"
       /\ write_buff = <<>>
       /\ last.pre # <<>> =>
             /\ Len(last.ev) = 1
             /\ last.ev[1].t = "write"
             /\ last.ev[1].data = last.pre
       /\ last.pre = <<>> => last.ev = <<>>

\* sync() has sent a buffer of several frames.
C7_Witness ==
    /\ last.op = "sync"
    /\ last.conn
    /\ Len(last.pre) > Len(read_data_byte_cmd) + Len(write_data_byte_cmd(0))
    /\ Len(Writes) = 1
    /\ write_buff = <<>>

\* C8: release() writes its command only after everything that was pending
\* at the call has been written: the command is the last write of the call,
\* nothing is pending when it goes out, every frame enqueued so far is
\* already on the wire before it, and the buffer is empty when release()
\* returns.
C8_ReleaseAfterFlush ==
    last.op = "release" =>
       /\ \A i \in 1..Len(last.ev) :
             (last.ev[i].t = "write" /\ last.ev[i].by = "release") =>
                /\ i = Len(last.ev)
                /\ last.ev[i].data = release_cmd
                /\ last.ev[i].pend = 0
                /\ DataOf(SubSeq(last.ev, 1, i - 1)) =
                      IF last.pre = <<>> THEN <<>> ELSE <<last.pre>>
                /\ \A j \in 1..(i - 1) : last.ev[j].t = "write"
                /\ wire[Len(wire)] = last.ev[i]
                /\ Flatten(Flushed) = Flatten(enq)
       /\ last.res = "ok" =>
             /\ write_buff = <<>>
             /\ Len(Writes) >= 1
             /\ Writes[Len(Writes)].by = "release"

\* release() flushed pending frames and then wrote its command.
C8_Witness ==
    /\ last.op = "release"
    /\ last.res = "ok"
    /\ last.pre # <<>>
    /\ Len(Writes) = 2

\* C9: reset() on an open transport whose writes succeed flushes the pending
\* buffer and then makes exactly two more writes, each one SET_BITS_LOW
\* command: the first with CK_BIT low, the second with CK_BIT high, D_O_BIT
\* set in both; nothing else is written and the buffer is empty afterwards.
C9_ResetPulse ==
    (last.op = "reset" /\ last.conn /\ FailedWrites = <<>>) =>
       LET n == Len(Writes)
           lo == Writes[n - 1]
           hi == Writes[n]
       IN  /\ last.res = "ok"
           /\ write_buff = <<>>
           /\ last.ev = Writes
           /\ n = IF last.pre = <<>> THEN 2 ELSE 3
           /\ last.pre # <<>> =>
                 (Writes[1].by = "sync" /\ Writes[1].data = last.pre)
           /\ lo.by = "reset" /\ hi.by = "reset"
           /\ lo.pend = 0 /\ hi.pend = 0
           /\ Len(lo.data) = 3 /\ Len(hi.data) = 3
           /\ lo.data[1] = SET_BITS_LOW /\ hi.data[1] = SET_BITS_LOW
           /\ ~HasBit(lo.data[2], CK_BIT) /\ HasBit(hi.data[2], CK_BIT)
           /\ HasBit(lo.data[2], D_O_BIT) /\ HasBit(hi.data[2], D_O_BIT)

\* reset() flushed pending frames and pulsed the clock line.
C9_Witness ==
    /\ last.op = "reset"
    /\ last.res = "ok"
    /\ last.pre # <<>>
    /\ Len(Writes) = 3

\* The length of the frame of write_addr.
L_addr == Len(write_addr_cmd(FillAddr))

\* C10: for every addr in 0..255 the frame write_addr(addr) enqueues has the
\* same length L_addr, holds a WRITE_BITS_PVE_LSB command with bit count 1
\* and the WriteAddress opcode (3), followed at once by a one-byte
\* WRITE_BYTES_PVE_LSB command whose data byte is addr; its other bytes do
\* not depend on addr.
C10_WriteAddrFrame ==
    (last.op = "write_addr" /\ last.res = "ok") =>
       LET fr == Appends[1].data
           addr == last.arg[1]
           ref == write_addr_cmd(IF addr = 0 THEN 255 ELSE addr - 1)
       IN  /\ Len(Appends) = 1
           /\ enq[Len(enq)] = fr
           /\ Len(fr) = L_addr
           /\ \E i \in 1..(Len(fr) - 6) :
                 /\ SubSeq(fr, i, i + 2) =
                       <<WRITE_BITS_PVE_LSB, 1, INS_WRITE_ADDR>>
                 /\ SubSeq(fr, i + 3, i + 6) =
                       <<WRITE_BYTES_PVE_LSB, 0, 0, addr>>
                 /\ \A j \in 1..Len(fr) : j # i + 6 => fr[j] = ref[j]
                 /\ INS_WRITE_ADDR = 3

\* write_addr has enqueued a frame for an address with bits set in both
\* nibbles.
C10_Witness ==
    /\ last.op = "write_addr"
    /\ last.res = "ok"
    /\ last.arg[1] = 180
    /\ write_buff = write_addr_cmd(180)

----------------------------------------------------------------------------
(* Structural reading of a command stream, as the MPSSE engine reads it *)

\* The number of bytes of the command that starts at b[i]; 0 when b[i] is
\* no opcode the controller uses.
CmdLen(b, i) ==
    CASE b[i] = CLK_BITS_NO_DATA -> 2
      [] b[i] = SET_BITS_LOW -> 3
      [] b[i] = WRITE_BITS_PVE_LSB -> 3
      [] b[i] = READ_BYTES_PVE_LSB -> 3
      [] b[i] = CLK_WAIT_ON_HIGH -> 1
      [] b[i] = WRITE_BYTES_PVE_LSB ->
            IF i + 2 <= Len(b) THEN 3 + b[i + 1] + 256 * b[i + 2] + 1 ELSE 0
      [] OTHER -> 0

\* The commands of b from index i on: opcode and operand bytes.  A byte that
\* is no opcode, or a command cut short, ends the reading with opcode -1.
RECURSIVE Cmds(_, _)
Cmds(b, i) ==
    IF i > Len(b) THEN <<>>
    ELSE LET n == CmdLen(b, i)
         IN  IF n = 0 \/ i + n - 1 > Len(b)
             THEN <<[op |-> -1, body |-> <<>>]>>
             ELSE <<[op |-> b[i], body |-> SubSeq(b, i + 1, i + n - 1)]>>
                  \o Cmds(b, i + n)

\* The opcodes of the commands of a frame.
Ops(fr) == [i \in 1..Len(Cmds(fr, 1)) |-> Cmds(fr, 1)[i].op]

\* The commands of a frame with a given opcode.
CmdsOf(fr, op) == SelectSeq(Cmds(fr, 1), LAMBDA c : c.op = op)

\* Decoding a frame: the C2 instruction is the two low bits of the
\* operand of its bit write, the payload the data of its byte write.
DecodeOpcode(fr) == CmdsOf(fr, WRITE_BITS_PVE_LSB)[1].body[2] % 4
DecodePayload(fr) ==
    LET w == CmdsOf(fr, WRITE_BYTES_PVE_LSB)[1].body IN w[Len(w)]

\* The length of the frame of write_data_byte.
L_data == Len(write_data_byte_cmd(FillAddr))

\* C11: for every val in 0..255 the frame write_data_byte(val) enqueues has
\* the same length L_data, longer than L_addr; it writes the WriteData
\* opcode (1) with bit count 3; and decoding the frame gives back the opcode
\* WriteData and the payload val.
C11_WriteDataFrame ==
    (last.op = "write_data_byte" /\ last.res = "ok") =>
       LET fr == Appends[1].data
           val == last.arg[1]
       IN  /\ Len(Appends) = 1
           /\ Len(fr) = L_data
           /\ L_data > L_addr
           /\ Len(CmdsOf(fr, WRITE_BITS_PVE_LSB)) = 1
           /\ CmdsOf(fr, WRITE_BITS_PVE_LSB)[1].body = <<3, INS_WRITE_DATA>>
           /\ INS_WRITE_DATA = 1
           /\ Len(CmdsOf(fr, WRITE_BYTES_PVE_LSB)) = 1
           /\ DecodeOpcode(fr) = INS_WRITE_DATA
           /\ DecodePayload(fr) = val

\* write_data_byte(0x42) has enqueued its frame.
C11_Witness ==
    /\ last.op = "write_data_byte"
    /\ last.res = "ok"
    /\ last.arg[1] = 66
    /\ DecodePayload(write_buff) = 66

AddrOps == {"write_addr", "read_addr"}
DataOps == {"write_data_byte", "read_data_byte"}

\* C12: read as a command stream, the frame of write_addr and of read_addr
\* holds no CLK_WAIT_ON_HIGH command, and the frame of write_data_byte and
\* of read_data_byte holds exactly one.
C12_WaitOnlyInDataFrames ==
    (last.op \in TxnOps /\ Appends # <<>>) =>
       LET fr == Appends[1].data
       IN  /\ \A i \in 1..Len(Ops(fr)) : Ops(fr)[i] # -1
           /\ last.op \in AddrOps => Len(CmdsOf(fr, CLK_WAIT_ON_HIGH)) = 0
           /\ last.op \in DataOps => Len(CmdsOf(fr, CLK_WAIT_ON_HIGH)) = 1

\* write_addr has enqueued a frame whose address byte has the value of the
\* WAIT opcode.
C12_Witness ==
    /\ last.op = "write_addr"
    /\ last.arg[1] = CLK_WAIT_ON_HIGH
    /\ Len(Appends) = 1
    /\ \E i \in 1..Len(write_buff) : write_buff[i] = CLK_WAIT_ON_HIGH

\* The position of the first command of a frame with one of the opcodes.
PosOf(fr, ops) ==
    CHOOSE i \in 1..Len(Ops(fr)) :
        /\ Ops(fr)[i] \in ops
        /\ \A j \in 1..(i - 1) : Ops(fr)[j] \notin ops

PayloadOps == {WRITE_BYTES_PVE_LSB, READ_BYTES_PVE_LSB}

\* The frame begins START, drive, instruction and ends with STOP.
FrameEnds(fr) ==
    LET c == Cmds(fr, 1)
    IN  /\ Len(c) >= 5
        /\ c[1] = [op |-> CLK_BITS_NO_DATA, body |-> <<0>>]
        /\ c[2].op = SET_BITS_LOW /\ HasBit(c[2].body[2], D_O_BIT)
        /\ c[3].op = WRITE_BITS_PVE_LSB
        /\ c[Len(c)] = [op |-> CLK_BITS_NO_DATA, body |-> <<0>>]

\* C16 as stated: every frame begins START, drive, instruction and ends
\* with STOP, and in both data-byte frames the WAIT comes after the payload
\* (the byte write or the byte read) and before STOP.
C16_WaitAfterPayload ==
    (last.op \in TxnOps /\ Appends # <<>>) =>
       LET fr == Appends[1].data
       IN  /\ FrameEnds(fr)
           /\ last.op \in DataOps =>
                 /\ PosOf(fr, PayloadOps) < PosOf(fr, {CLK_WAIT_ON_HIGH})
                 /\ PosOf(fr, {CLK_WAIT_ON_HIGH}) < Len(Ops(fr))

\* C16, amended: every frame begins START, drive, instruction and ends with
\* STOP.  The write frames put the payload write before the release of the
\* data line, the read frames the release before the payload read.  In
\* write_data_byte the WAIT follows payload and release and precedes STOP;
\* in read_data_byte the WAIT follows the release and precedes the payload
\* read, which STOP follows.
C16_PhaseOrder ==
    (last.op \in TxnOps /\ Appends # <<>>) =>
       LET fr == Appends[1].data
       IN  /\ FrameEnds(fr)
           /\ last.op = "write_addr" =>
                 Ops(fr) = <<CLK_BITS_NO_DATA, SET_BITS_LOW, WRITE_BITS_PVE_LSB,
                             WRITE_BYTES_PVE_LSB, SET_BITS_LOW,
                             CLK_BITS_NO_DATA>>
           /\ last.op = "read_addr" =>
                 Ops(fr) = <<CLK_BITS_NO_DATA, SET_BITS_LOW, WRITE_BITS_PVE_LSB,
                             SET_BITS_LOW, READ_BYTES_PVE_LSB,
                             CLK_BITS_NO_DATA>>
           /\ last.op = "write_data_byte" =>
                 Ops(fr) = <<CLK_BITS_NO_DATA, SET_BITS_LOW, WRITE_BITS_PVE_LSB,
                             WRITE_BYTES_PVE_LSB, SET_BITS_LOW,
                             CLK_WAIT_ON_HIGH, CLK_BITS_NO_DATA>>
           /\ last.op = "read_data_byte" =>
                 Ops(fr) = <<CLK_BITS_NO_DATA, SET_BITS_LOW, WRITE_BITS_PVE_LSB,
                             SET_BITS_LOW, CLK_WAIT_ON_HIGH,
                             READ_BYTES_PVE_LSB, CLK_BITS_NO_DATA>>
           /\ LET rel == Cmds(fr, 1)[IF last.op \in WriteOps THEN 5 ELSE 4].body
              IN  HasBit(rel[1], CK_BIT) /\ ~HasBit(rel[2], D_O_BIT)

\* read_data_byte has enqueued its frame, the WAIT ahead of the byte read.
C16_Witness ==
    /\ last.op = "read_data_byte"
    /\ Len(Appends) = 1
    /\ PosOf(Appends[1].data, {CLK_WAIT_ON_HIGH})
          < PosOf(Appends[1].data, PayloadOps)

\* C13 as stated: once close() has disconnected the transport, the
\* controller never comes back to a state with an open transport, in which
\* transaction calls go through, and nothing more is written to the
\* transport by any call, configure included.
C13_ClosedIsTerminal ==
    /\ closed => ~connected
    /\ last.closed => (Writes = <<>> /\ Reads = <<>>)

\* C13, amended: close() disconnects the transport; from then on, until
\* configure() is called, every call leaves it disconnected, nothing is
\* written to or read from it, and read_addr, read_data_byte, sync,
\* release and reset fail with C2Error.  Closed is not terminal: a
\* configure() that succeeds after a close() opens the transport again and
\* writes its set-up command, and a read transaction on the reopened
\* transport is written, read and returns its byte.
C13_ClosedUntilConfigure ==
    /\ last.op = "close" => (~connected /\ (last.conn => closed))
    /\ (last.closed /\ ~last.conn /\ last.op # "configure") =>
          /\ ~connected
          /\ Writes = <<>>
          /\ Reads = <<>>
          /\ last.op \in ReadOps \cup {"sync", "release", "reset"} =>
                last.res = "C2Error"
    /\ (last.closed /\ last.op = "configure" /\ last.res = "ok") =>
          /\ connected
          /\ DataOf(Writes) = <<configure_cmd>>
    /\ (last.closed /\ last.conn /\ last.op \in ReadOps /\ FailedWrites = <<>>) =>
          /\ Len(Writes) >= 1
          /\ Len(Reads) = 1
          /\ Reads[1].data # <<>> => last.res = "ok"

\* After close() and a second configure(), a read transaction returned a
\* byte.
C13_Witness ==
    /\ last.closed
    /\ last.conn
    /\ last.op \in ReadOps
    /\ last.res = "ok"
    /\ Len(Writes) >= 1

\* The last call ran into a transport write that failed during a flush.
FlushFailed ==
    \E i \in 1..Len(last.ev) :
        last.ev[i].t = "write_failed" /\ last.ev[i].by = "sync"

\* The flushes of the last call that went through.
FlushWrites == SelectSeq(Writes, LAMBDA e : e.by = "sync")

IsPrefix(p, s) == Len(p) <= Len(s) /\ SubSeq(s, 1, Len(p)) = p

\* C14 as stated: when the transport write of a flush fails, the call
\* fails with the transport's error, the buffer keeps the contents it had
\* before the flush, the frame or command of the call is neither appended
\* nor sent, and the next flush that goes through sends the retained bytes.
C14_FailedFlushLeavesNoTrace ==
    /\ FlushFailed =>
          /\ last.res = "FtdiError"
          /\ last.ev[Len(last.ev)].t = "write_failed"
          /\ write_buff = last.ev[Len(last.ev)].data
          /\ Appends = <<>>
          /\ \A i \in 1..Len(Writes) : Writes[i].by = "sync"
    /\ (last.prevfail /\ FlushWrites # <<>>) =>
          IsPrefix(last.pre, FlushWrites[1].data)

\* C14, amended: when the transport write of a flush fails, the call fails
\* with the transport's error at that point and the buffer keeps the
\* contents it had before that flush.  In sync, release, reset, write_addr
\* and write_data_byte, and in a read call whose failing flush is the one
\* inside _stack_cmd, nothing of the call is appended or sent and the
\* buffer is as before the call.  A read call whose own sync() fails has
\* appended its frame already: the frame stays at the end of the buffer.
\* The next flush that goes through sends the retained bytes first.
C14_FailedFlushRetains ==
    /\ FlushFailed =>
          /\ last.res = "FtdiError"
          /\ last.ev[Len(last.ev)].t = "write_failed"
          /\ write_buff = last.ev[Len(last.ev)].data
          /\ Reads = <<>>
          /\ \A i \in 1..Len(Writes) : Writes[i].by = "sync"
          /\ (Appends = <<>>) => (write_buff = last.pre /\ Writes = <<>>)
          /\ (Appends # <<>>) =>
                /\ last.op \in ReadOps
                /\ DataOf(Appends) = <<LastFrame>>
                /\ last.ev[Len(last.ev) - 1].t = "append"
                /\ write_buff =
                      (IF AtLimit THEN <<>> ELSE last.pre) \o LastFrame
          /\ (last.op \in ReadOps /\ ~AtLimit) => Appends # <<>>
    /\ (last.prevfail /\ FlushWrites # <<>>) =>
          /\ IsPrefix(last.pre, FlushWrites[1].data)
          /\ last.pre # <<>>

\* A flush went through in the call after one whose flush failed, and sent
\* the bytes that call had left.
C14_Witness ==
    /\ last.prevfail
    /\ FlushWrites # <<>>
    /\ FlushWrites[1].data = last.pre
    /\ Len(last.pre) > L_data

\* C15: on a transport that is not connected, sync, release and reset fail
\* with the controller's own error before anything is handed to the
\* transport, and the buffer is left as it was.
C15_NotConnectedGuards ==
    (last.op \in {"sync", "release", "reset"} /\ ~last.conn) =>
        /\ last.res = "C2Error"
        /\ last.ev = <<>>
        /\ write_buff = last.pre

\* release was refused on a transport that is not connected while frames
\* were pending.
C15_Witness ==
    /\ last.op = "release"
    /\ ~last.conn
    /\ last.pre # <<>>
    /\ last.res = "C2Error"

\* The bytes of b from index i on read as whole frames: outside a frame
\* only a marker (CLK_BITS_NO_DATA, 0) may come and it opens one; inside a
\* frame the next marker closes it; every command is complete; the bytes
\* end outside a frame.
RECURSIVE Framed(_, _, _)
Framed(b, i, inside) ==
    IF i > Len(b) THEN ~inside
    ELSE LET n == CmdLen(b, i)
         IN  /\ n > 0
             /\ i + n - 1 <= Len(b)
             /\ IF b[i] = CLK_BITS_NO_DATA /\ b[i + 1] = 0
                THEN Framed(b, i + n, ~inside)
                ELSE inside /\ Framed(b, i + n, inside)

\* C17: every buffer a flush hands to the transport is one or more whole
\* frames, each from its own START marker to its own STOP marker.
C17_WholeFrames ==
    \A i \in 1..Len(FlushWrites) :
        /\ FlushWrites[i].data # <<>>
        /\ Framed(FlushWrites[i].data, 1, FALSE)

\* A flush handed over frames of two kinds at once, a data write frame
\* last.
C17_Witness ==
    /\ FlushWrites # <<>>
    /\ LET d == FlushWrites[1].data
       IN  /\ Len(d) >= L_addr + L_data
           /\ \E v \in ValSet :
                 SubSeq(d, Len(d) - L_data + 1, Len(d)) = write_data_byte_cmd(v)
           /\ SubSeq(d, 1, L_addr) = write_addr_cmd(FillAddr)

\* The writes release() itself made in the last call.
ReleaseWrites == SelectSeq(Writes, LAMBDA e : e.by = "release")

\* C18 as stated: in the output-level byte of the command release() writes
\* the clock bit is set and the data-output bit is cleared.
C18_DataOutputCleared ==
    \A i \in 1..Len(ReleaseWrites) :
        /\ HasBit(ReleaseWrites[i].data[2], CK_BIT)
        /\ ~HasBit(ReleaseWrites[i].data[2], D_O_BIT)

\* C18, amended: release() writes one SET_BITS_LOW command whose
\* output-level byte has both the clock bit and the data-output bit set
\* and whose direction byte is 0, so that neither line is driven any
\* more; it is the command configure() writes, and it differs from the
\* command of claim() in the direction byte only.
C18_ReleaseTristates ==
    /\ Len(ReleaseWrites) <= 1
    /\ \A i \in 1..Len(ReleaseWrites) :
          LET d == ReleaseWrites[i].data
          IN  /\ Len(d) = 3
              /\ d[1] = SET_BITS_LOW
              /\ HasBit(d[2], CK_BIT)
              /\ HasBit(d[2], D_O_BIT)
              /\ d[3] = 0
              /\ d = configure_cmd
              /\ d[1] = claim_cmd[1] /\ d[2] = claim_cmd[2]
              /\ d[3] # claim_cmd[3]
    /\ (last.op = "release" /\ last.res = "ok") => Len(ReleaseWrites) = 1

\* release() with nothing pending wrote its one command.
C18_Witness ==
    /\ last.op = "release"
    /\ last.res = "ok"
    /\ last.pre = <<>>
    /\ Len(Writes) = 1
    /\ Writes[1].by = "release"

\* The writes claim() made in the last call.
ClaimWrites == SelectSeq(Writes, LAMBDA e : e.by = "claim")

\* C19: the command of claim() is never handed to the transport while a
\* frame enqueued by an earlier call is still pending in the buffer.
C19_ClaimInCallOrder ==
    \A i \in 1..Len(ClaimWrites) : ClaimWrites[i].pend = 0

\* C20: close() and purge() leave the pending buffer as it was: they
\* neither append to it, nor flush it, nor clear it, and write nothing to
\* the transport.
C20_CloseKeepsBuffer ==
    last.op \in {"close", "purge"} =>
        /\ write_buff = last.pre
        /\ Appends = <<>>
        /\ Writes = <<>>
        /\ FailedWrites = <<>>
        /\ Reads = <<>>

\* close() shut an open transport while frames were pending.
C20_Witness ==
    /\ last.op = "close"
    /\ last.conn
    /\ ~connected
    /\ last.pre # <<>>
    /\ write_buff = last.pre

====
